---- MODULE Spec2Model ----
(***************************************************************************)
(* node-filesystem: three storage adapters behind one contract.            *)
(*   S3Adapter        src/src/adapters/s3.adapter.ts                       *)
(*   BunAdapter       src/unnamed/part_001 (src/adapters/bun.adapter.ts)   *)
(*   BunLocalAdapter  src/src/adapters/bun.local.adapter.ts                *)
(* A path is a sequence of one-character strings, so that the code's       *)
(* string handling (rtrim, ltrim, the trailing-'/' tests, prefix matching) *)
(* is computed and not assumed.  The storage medium (a bucket of keys, or  *)
(* a directory tree) is the variable store; one action is one call of an   *)
(* adapter method, run to completion.  The rename of an object store is    *)
(* also modelled request by request (variable renaming), with other calls  *)
(* running between its awaits.                                             *)
(***************************************************************************)
EXTENDS Integers, Sequences, FiniteSets, TLC

\* ---------------------------------------------------------------- bounds
\* Most objects (bucket) or nodes below the root (directory tree) stored.
MaxObjects == 2
\* Keys the medium returns in one listing page (1000 on S3), scaled down.
PageSize == 1

\* ------------------------------------------------------------- strings
SLASH == "/"

\* Character order of the medium's key ordering (UTF-8 binary order).
CharOrd(c) == CASE c = "/" -> 47 [] c = "a" -> 97 [] c = "b" -> 98 [] OTHER -> 114

RECURSIVE LexLess(_, _)
LexLess(s, t) ==
  IF s = <<>> THEN t # <<>>
  ELSE IF t = <<>> THEN FALSE
  ELSE IF Head(s) = Head(t) THEN LexLess(Tail(s), Tail(t))
  ELSE CharOrd(Head(s)) < CharOrd(Head(t))

\* The keys of S in the medium's order.
RECURSIVE SortKeys(_)
SortKeys(S) ==
  IF S = {} THEN <<>>
  ELSE LET m == CHOOSE x \in S : \A y \in S : x = y \/ LexLess(x, y)
       IN <<m>> \o SortKeys(S \ {m})

\* rtrim(s, '/') of the rtrim package: every trailing '/' removed.
RECURSIVE rtrim(_)
rtrim(s) ==
  IF s # <<>> /\ s[Len(s)] = SLASH THEN rtrim(SubSeq(s, 1, Len(s) - 1)) ELSE s

\* ltrim(s, '/') of the ltrim package: every leading '/' removed.
RECURSIVE ltrim(_)
ltrim(s) ==
  IF s # <<>> /\ Head(s) = SLASH THEN ltrim(Tail(s)) ELSE s

\* path[path.length - 1] === '/'  (also result.path.substr(-1) === '/')
EndsWithSlash(s) == s # <<>> /\ s[Len(s)] = SLASH

\* String.prototype.startsWith: the medium's Prefix match.
StartsWith(s, p) == Len(p) <= Len(s) /\ SubSeq(s, 1, Len(p)) = p

Min(a, b) == IF a <= b THEN a ELSE b

Range(f) == {f[i] : i \in DOMAIN f}

\* ------------------------------------------------------ inputs of the calls
\* File-like paths, and the same paths written with a trailing separator.
FilePaths == {<<"a">>, <<"b">>, <<"a", "/", "b">>}
Paths == FilePaths \cup {p \o <<SLASH>> : p \in FilePaths}
\* contents written by write(); createDir() uploads ''.
Contents == {"x"}
\* config.visibility of write()/createDir(); "none" is a config without the key.
Visibilities == {"public", "private"}
Configs == {"none"} \cup Visibilities
Adapters == {"S3Adapter", "BunAdapter", "BunLocalAdapter"}
\* The prefix (root) every adapter of the model is constructed with.
Root == <<"r">>

VARIABLES
  adapter,     \* which adapter class the instance is
  pathPrefix,  \* AbstractAdapter.pathPrefix, set by the constructor
  options,     \* S3Adapter.options: the ACL key of this.options ("none": unset)
  store,       \* the medium: key or location |-> [kind, contents, perm]
  last,        \* the call that has just returned: its arguments and result
  renaming     \* a rename in flight: where it stands and what it has awaited

vars == <<adapter, pathPrefix, options, store, last, renaming>>

\* ------------------------------------------------------------- results
\* What a call gives back: a boolean, an Entry, or a thrown error.
RetBool(b) ==
  [kind |-> "bool", val |-> b, type |-> "", path |-> <<>>, visibility |-> "",
   contents |-> "", hasContents |-> FALSE, size |-> 0, hasSize |-> FALSE]
RetThrow ==
  [kind |-> "throw", val |-> FALSE, type |-> "", path |-> <<>>, visibility |-> "",
   contents |-> "", hasContents |-> FALSE, size |-> 0, hasSize |-> FALSE]
RetEntry(type, path, contents, hasContents, size, hasSize) ==
  [kind |-> "entry", val |-> TRUE, type |-> type, path |-> path, visibility |-> "",
   contents |-> contents, hasContents |-> hasContents,
   size |-> size, hasSize |-> hasSize]
\* { visibility } of getVisibility
RetVisibility(v) ==
  [kind |-> "visibility", val |-> TRUE, type |-> "", path |-> <<>>, visibility |-> v,
   contents |-> "", hasContents |-> FALSE, size |-> 0, hasSize |-> FALSE]

\* Buffer.byteLength(contents)
byteLength(c) == IF c = "" THEN 0 ELSE 1

\* What a handler yields: the medium and this.options after it, its result,
\* and the requests it sent to the medium, in order.
Outcome(st, opts, ret, reqs) ==
  [store |-> st, options |-> opts, ret |-> ret, reqs |-> reqs]

\* ------------------------------------------------ AbstractAdapter (prefix)
\* setPathPrefix: the root with one trailing separator; no root, no prefix.
setPathPrefix(prefix) ==
  IF prefix = <<>> THEN <<>> ELSE rtrim(prefix) \o <<SLASH>>

\* AbstractAdapter.applyPathPrefix: root and path joined by one separator.
AbstractApplyPathPrefix(path) == pathPrefix \o ltrim(path)

\* AbstractAdapter.removePathPrefix: the remainder after the root.
removePathPrefix(path) == SubSeq(path, Len(pathPrefix) + 1, Len(path))

\* S3Adapter.applyPathPrefix / BunAdapter.applyPathPrefix
applyPathPrefix(path) == ltrim(AbstractApplyPathPrefix(path))

\* ------------------------------------------------- the object store (bucket)
NoToken == <<>>

Object(contents, acl) == [kind |-> "file", contents |-> contents, perm |-> acl]

\* HeadObject / s3.file(key).exists(): is there an object with this key
HeadObject(st, key) == key \in DOMAIN st

\* PutObject / s3.write: create or overwrite
PutObject(st, key, obj) ==
  [k \in DOMAIN st \cup {key} |-> IF k = key THEN obj ELSE st[k]]

\* DeleteObject(s) / s3.delete: succeeds whether or not the keys exist
DeleteObjects(st, keys) == [k \in DOMAIN st \ keys |-> st[k]]

\* ListObjectsV2 / s3.list without a delimiter: the keys under Prefix after
\* the cursor, in key order, one page of at most maxKeys and PageSize keys.
\* The answer carries the cursor of the next page (NextContinuationToken)
\* and echoes the cursor it was asked with (ContinuationToken).
ListObjectsV2(st, prefix, token, maxKeys) ==
  LET all == SortKeys({k \in DOMAIN st :
                 StartsWith(k, prefix) /\ (token = NoToken \/ LexLess(token, k))})
      n == Min(Min(maxKeys, PageSize), Len(all))
      page == SubSeq(all, 1, n)
  IN [Contents |-> page,
      NextContinuationToken |-> IF Len(all) > n /\ n > 0 THEN page[n] ELSE NoToken,
      ContinuationToken |-> token]

\* ------------------------------------------------------------- S3Adapter
\* getOptionsFromConfig: `options` is this.options itself, not a copy, so the
\* visibility of this call's config is written into the adapter.
S3_getOptionsFromConfig(opts, config) ==
  IF config = "public" THEN "public-read"
  ELSE IF config = "private" THEN "private"
  ELSE opts

\* normalizeResponse with an explicit path: a path ending in '/' is a dir
\* Entry (path trimmed, nothing mapped from the response), any other a file
\* Entry carrying the mapped Body and ContentLength.
S3_normalizeResponse(contents, path) ==
  IF EndsWithSlash(path)
  THEN RetEntry("dir", rtrim(path), "", FALSE, 0, FALSE)
  ELSE RetEntry("file", path, contents, TRUE, byteLength(contents), TRUE)

S3_upload(st, opts, path, contents, config) ==
  LET key == applyPathPrefix(path)
      o == S3_getOptionsFromConfig(opts, config)
      acl == IF o # "none" THEN o ELSE "private"
  IN Outcome(PutObject(st, key, Object(contents, acl)), o,
             S3_normalizeResponse(contents, path), <<"PutObject">>)

S3_read(st, opts, path) ==
  LET key == applyPathPrefix(path)
  IN IF HeadObject(st, key)
     THEN Outcome(st, opts, S3_normalizeResponse(st[key].contents, path),
                  <<"GetObject">>)
     ELSE Outcome(st, opts, RetThrow, <<"GetObject">>)

\* A delete without the trailing-separator guard, which C3 must tell from
\* S3_deleteGuard.
S3_deleteGuard_Off(path) == FALSE

\* if (path[path.length - 1] === '/') return false
S3_deleteGuard(path) == EndsWithSlash(path)

S3_delete(st, opts, path) ==
  LET key == applyPathPrefix(path)
  IN IF S3_deleteGuard(path)
     THEN Outcome(st, opts, RetBool(FALSE), <<>>)
     ELSE Outcome(DeleteObjects(st, {key}), opts, RetBool(TRUE),
                  <<"DeleteObject">>)

\* A directory lookup whose prefix lacks the closing separator, so that the
\* key of a file passes for a directory; C5 must tell it from
\* S3_doesDirectoryExist.
S3_doesDirectoryExist_OpenPrefix(st, location) ==
  Len(ListObjectsV2(st, rtrim(location), NoToken, 1).Contents) > 0

\* ListObjects with MaxKeys 1 under rtrim(location, '/') + '/'
S3_doesDirectoryExist(st, location) ==
  Len(ListObjectsV2(st, rtrim(location) \o <<SLASH>>, NoToken, 1).Contents) > 0

S3_has(st, opts, path) ==
  LET key == applyPathPrefix(path)
  IN IF HeadObject(st, key)
     THEN Outcome(st, opts, RetBool(TRUE), <<"HeadObject">>)
     ELSE Outcome(st, opts, RetBool(S3_doesDirectoryExist(st, key)),
                  <<"HeadObject", "ListObjects">>)

\* getRawVisibility: 'public' for an AllUsers READ grant, 'private' otherwise
\* and when GetObjectAcl throws (no such key).
S3_getRawVisibility(st, path) ==
  LET key == applyPathPrefix(path)
  IN IF HeadObject(st, key) /\ st[key].perm = "public-read"
     THEN "public" ELSE "private"

\* The ACL the CopyObject request carries: the source's, then ...this.options
\* spread over it.
S3_copyACL(st, opts, path) ==
  LET acl == IF S3_getRawVisibility(st, path) = "public"
             THEN "public-read" ELSE "private"
  IN IF opts # "none" THEN opts ELSE acl

\* CopyObject is served when the source key is stored and is not the
\* destination: S3 answers a copy of an object onto itself that changes no
\* metadata with InvalidRequest, and the request sets no MetadataDirective.
CopyObjectOk(st, src, key) == HeadObject(st, src) /\ src # key

\* copy: `reject` is the medium refusing a CopyObject request it could have
\* served (a transport fault, access denied).
S3_copy(st, opts, path, newpath, reject) ==
  LET key == applyPathPrefix(newpath)
      src == applyPathPrefix(path)
  IN IF CopyObjectOk(st, src, key) /\ ~reject
     THEN Outcome(PutObject(st, key,
                    Object(st[src].contents, S3_copyACL(st, opts, path))),
                  opts, RetBool(TRUE), <<"GetObjectAcl", "CopyObject">>)
     ELSE Outcome(st, opts, RetBool(FALSE), <<"GetObjectAcl", "CopyObject">>)

\* A rename that deletes the source whatever the copy returned; C1 must tell
\* it from S3_rename.
S3_rename_DeletesAnyway(st, opts, path, newpath, reject) ==
  LET c == S3_copy(st, opts, path, newpath, reject)
      d == S3_delete(c.store, opts, path)
  IN Outcome(d.store, opts, RetBool(c.ret.val /\ d.ret.val), c.reqs \o d.reqs)

S3_rename(st, opts, path, newpath, reject) ==
  LET c == S3_copy(st, opts, path, newpath, reject)
  IN IF ~c.ret.val
     THEN Outcome(c.store, opts, RetBool(FALSE), c.reqs)
     ELSE LET d == S3_delete(c.store, opts, path)
          IN Outcome(d.store, opts, d.ret, c.reqs \o d.reqs)

RECURSIVE S3_deleteDirLoop(_, _, _, _)
S3_deleteDirLoop(st, prefix, continuationToken, reqs) ==
  LET listResult == ListObjectsV2(st, prefix, continuationToken, PageSize)
      sent == reqs \o <<"ListObjectsV2">>
  IN IF Len(listResult.Contents) = 0
     THEN [store |-> st, reqs |-> sent]
     ELSE LET st2 == DeleteObjects(st, Range(listResult.Contents))
              next == listResult.NextContinuationToken
          IN IF next # NoToken
             THEN S3_deleteDirLoop(st2, prefix, next, sent \o <<"DeleteObjects">>)
             ELSE [store |-> st2, reqs |-> sent \o <<"DeleteObjects">>]

S3_deleteDir(st, opts, dirname) ==
  LET prefix == rtrim(applyPathPrefix(dirname)) \o <<SLASH>>
      r == S3_deleteDirLoop(st, prefix, NoToken, <<>>)
  IN Outcome(r.store, opts, RetBool(TRUE), r.reqs)

S3_createDir(st, opts, dirname, config) ==
  S3_upload(st, opts, rtrim(dirname) \o <<SLASH>>, "", config)

\* PutObjectAcl throws for a key that is not stored.
S3_setVisibility(st, opts, path, visibility) ==
  LET key == applyPathPrefix(path)
  IN IF HeadObject(st, key)
     THEN Outcome(PutObject(st, key, Object(st[key].contents,
                    IF visibility = "public" THEN "public-read" ELSE "private")),
                  opts, RetBool(TRUE), <<"PutObjectAcl">>)
     ELSE Outcome(st, opts, RetBool(FALSE), <<"PutObjectAcl">>)

\* ------------------------------------------------------------ BunAdapter
\* Bun's S3 client is given no ACL by this adapter (the options it passes are
\* not options of s3.write), so every object has the bucket's default ACL.
Bun_normalizeResponse(contents, path) ==
  IF EndsWithSlash(path)
  THEN RetEntry("dir", rtrim(path), "", FALSE, 0, FALSE)
  ELSE RetEntry("file", path, contents, TRUE, byteLength(contents), TRUE)

Bun_upload(st, opts, path, contents, config) ==
  LET key == applyPathPrefix(path)
  IN Outcome(PutObject(st, key, Object(contents, "private")), opts,
             Bun_normalizeResponse(contents, path), <<"write">>)

\* file.text() and file.stat() reject for a key that is not stored, and the
\* catch rethrows.
Bun_read(st, opts, path) ==
  LET key == applyPathPrefix(path)
  IN IF HeadObject(st, key)
     THEN Outcome(st, opts, Bun_normalizeResponse(st[key].contents, path),
                  <<"text", "stat">>)
     ELSE Outcome(st, opts, RetThrow, <<"text", "stat">>)

Bun_deleteGuard(path) == EndsWithSlash(path)

Bun_delete(st, opts, path) ==
  LET key == applyPathPrefix(path)
  IN IF Bun_deleteGuard(path)
     THEN Outcome(st, opts, RetBool(FALSE), <<>>)
     ELSE Outcome(DeleteObjects(st, {key}), opts, RetBool(TRUE), <<"delete">>)

Bun_doesDirectoryExist(st, location) ==
  Len(ListObjectsV2(st, rtrim(location) \o <<SLASH>>, NoToken, 1).Contents) > 0

Bun_has(st, opts, path) ==
  LET key == applyPathPrefix(path)
  IN IF HeadObject(st, key)
     THEN Outcome(st, opts, RetBool(TRUE), <<"exists">>)
     ELSE Outcome(st, opts, RetBool(Bun_doesDirectoryExist(st, key)),
                  <<"exists", "list">>)

\* A copy that writes an empty object under the new key; C7 must tell it
\* from Bun_copy.
Bun_copy_Empty(st, opts, path, newpath, reject) ==
  IF ~HeadObject(st, applyPathPrefix(path)) \/ reject
  THEN Outcome(st, opts, RetBool(FALSE), <<"arrayBuffer">>)
  ELSE Outcome(PutObject(st, applyPathPrefix(newpath), Object("", "private")),
               opts, RetBool(TRUE), <<"arrayBuffer", "write">>)

\* copy: read the source's bytes, write them to the new key; `reject` is the
\* medium refusing the write.
Bun_copy(st, opts, path, newpath, reject) ==
  LET key == applyPathPrefix(path)
      newKey == applyPathPrefix(newpath)
  IN IF ~HeadObject(st, key)
     THEN Outcome(st, opts, RetBool(FALSE), <<"arrayBuffer">>)
     ELSE IF reject
     THEN Outcome(st, opts, RetBool(FALSE), <<"arrayBuffer", "write">>)
     ELSE Outcome(PutObject(st, newKey, Object(st[key].contents, "private")),
                  opts, RetBool(TRUE), <<"arrayBuffer", "write">>)

\* A rename that copies and leaves the source where it was; C2 must tell it
\* from Bun_rename.
Bun_rename_KeepsSource(st, opts, path, newpath, reject) ==
  LET c == Bun_copy(st, opts, path, newpath, reject)
  IN Outcome(c.store, opts, c.ret, c.reqs)

Bun_rename(st, opts, path, newpath, reject) ==
  LET c == Bun_copy(st, opts, path, newpath, reject)
  IN IF ~c.ret.val
     THEN Outcome(c.store, opts, RetBool(FALSE), c.reqs)
     ELSE LET d == Bun_delete(c.store, opts, path)
          IN Outcome(d.store, opts, d.ret, c.reqs \o d.reqs)

\* The cursor of the next request is read from result.continuationToken,
\* which in Bun's list answer is the echo of the cursor the request was sent
\* with; the cursor of the next page is result.nextContinuationToken.
Bun_nextToken(result) == result.ContinuationToken

RECURSIVE Bun_deleteDirLoop(_, _, _, _)
Bun_deleteDirLoop(st, prefix, continuationToken, reqs) ==
  LET result == ListObjectsV2(st, prefix, continuationToken, PageSize)
      sent == reqs \o <<"list">>
  IN IF Len(result.Contents) = 0
     THEN [store |-> st, reqs |-> sent]
     ELSE LET st2 == DeleteObjects(st, Range(result.Contents))
              next == Bun_nextToken(result)
          IN IF next # NoToken
             THEN Bun_deleteDirLoop(st2, prefix, next, sent \o <<"delete">>)
             ELSE [store |-> st2, reqs |-> sent \o <<"delete">>]

Bun_deleteDir(st, opts, dirname) ==
  LET prefix == rtrim(applyPathPrefix(dirname)) \o <<SLASH>>
      r == Bun_deleteDirLoop(st, prefix, NoToken, <<>>)
  IN Outcome(r.store, opts, RetBool(TRUE), r.reqs)

Bun_createDir(st, opts, dirname, config) ==
  Bun_upload(st, opts, rtrim(dirname) \o <<SLASH>>, "", config)

\* setVisibility only warns; getVisibility answers 'private' whatever is stored.
Bun_setVisibility(st, opts, path, visibility) ==
  Outcome(st, opts, RetBool(TRUE), <<>>)

Bun_getVisibility(st, path) == "private"

\* ------------------------------------------------- the directory tree (fs)
\* A node is keyed by its location without a trailing separator.  Every
\* node's parent is a stored directory; the root directory is always there.
Node(kind, contents, mode) == [kind |-> kind, contents |-> contents, perm |-> mode]

\* The location one level up: the text before the last separator.
RECURSIVE ParentOf(_)
ParentOf(n) ==
  IF n = <<>> THEN <<>>
  ELSE IF n[Len(n)] = SLASH THEN SubSeq(n, 1, Len(n) - 1)
  ELSE ParentOf(SubSeq(n, 1, Len(n) - 1))

\* n is below directory d
Under(n, d) == StartsWith(n, d \o <<SLASH>>)

\* stat/access: the node a location resolves to, or none.  A location with
\* a trailing separator resolves only to a directory.
FsExists(st, location) ==
  LET n == rtrim(location)
  IN n \in DOMAIN st /\ (EndsWithSlash(location) => st[n].kind = "dir")

FsIsDir(st, location) ==
  FsExists(st, location) /\ st[rtrim(location)].kind = "dir"

FsIsFile(st, location) ==
  FsExists(st, location) /\ st[rtrim(location)].kind = "file"

\* The locations from the root down to n (n included).
RECURSIVE Lineage(_)
Lineage(n) ==
  IF n = <<>> \/ ~StartsWith(n, rtrim(pathPrefix)) THEN {}
  ELSE {n} \cup Lineage(ParentOf(n))

\* mkdir without {recursive: true}: it fails when the directory exists; C9
\* must tell it from MkdirOk.
MkdirOk_NotRecursive(st, location) ==
  /\ ~FsExists(st, location)
  /\ FsIsDir(st, ParentOf(rtrim(location)))

\* mkdir(location, {recursive: true}) succeeds unless a file is in the way.
MkdirOk(st, location) ==
  \A n \in Lineage(rtrim(location)) : n \in DOMAIN st => st[n].kind = "dir"

\* ... and creates every missing directory of the lineage with the mode.
Mkdir(st, location, mode) ==
  LET new == Lineage(rtrim(location)) \ DOMAIN st
  IN [k \in DOMAIN st \cup new |->
        IF k \in DOMAIN st THEN st[k] ELSE Node("dir", "", mode)]

\* rm(location, {recursive: true, force: true})
RmRecursive(st, location) ==
  LET n == rtrim(location)
  IN [k \in {x \in DOMAIN st : x # n /\ ~Under(x, n)} |-> st[k]]

\* ------------------------------------------------------- BunLocalAdapter
Local_isDir(st, root) == FsIsDir(st, root)

\* getDirname: split('/'), drop the last piece, join('/')
Local_getDirname(path) == ParentOf(path)

\* write: ensureDirectory(dirname), then Bun.write.  mkdir and Bun.write
\* throw when a file is in the way of the directory, or the location is a
\* directory or ends in a separator; directories made before that stay.
Local_write(st, opts, path, contents, config) ==
  LET location == AbstractApplyPathPrefix(path)
      dir == Local_getDirname(location)
      n == rtrim(location)
  IN IF ~Local_isDir(st, dir) /\ ~MkdirOk(st, dir)
     THEN Outcome(st, opts, RetThrow, <<"stat", "mkdir">>)
     ELSE LET st1 == IF Local_isDir(st, dir) THEN st ELSE Mkdir(st, dir, "0755")
          IN IF EndsWithSlash(location) \/ FsIsDir(st1, n)
             THEN Outcome(st1, opts, RetThrow, <<"stat", "write">>)
             ELSE Outcome(
                    [k \in DOMAIN st1 \cup {n} |->
                       IF k # n THEN st1[k]
                       ELSE Node("file", contents,
                              IF n \in DOMAIN st1 THEN st1[n].perm ELSE "0644")],
                    opts,
                    RetEntry("file", path, contents, TRUE, byteLength(contents), TRUE),
                    <<"stat", "write">>)

\* read: false unless Bun.file(location) is a stored file
Local_read(st, opts, path) ==
  LET location == AbstractApplyPathPrefix(path)
  IN IF FsIsFile(st, location)
     THEN Outcome(st, opts,
            RetEntry("file", path, st[rtrim(location)].contents, TRUE, 0, FALSE),
            <<"exists", "text">>)
     ELSE Outcome(st, opts, RetBool(FALSE), <<"exists">>)

\* An unlink that the medium always refuses; C4 must tell it from
\* Local_unlinkOk.
Local_unlinkOk_Never(st, location) == FALSE

\* unlink removes a file; it fails for a directory, a missing location and a
\* location with a trailing separator.
Local_unlinkOk(st, location) == FsIsFile(st, location) /\ ~EndsWithSlash(location)

Local_delete(st, opts, path) ==
  LET location == AbstractApplyPathPrefix(path)
  IN IF Local_unlinkOk(st, location)
     THEN Outcome(RmRecursive(st, location), opts, RetBool(TRUE), <<"unlink">>)
     ELSE Outcome(st, opts, RetBool(FALSE), <<"unlink">>)

Local_has(st, opts, path) ==
  Outcome(st, opts, RetBool(FsExists(st, AbstractApplyPathPrefix(path))),
          <<"access">>)

\* rename(2): the source must exist; the destination's parent must be a
\* directory; a file does not replace a directory nor take a name ending in a
\* separator; a directory replaces only an empty directory and does not move
\* below itself.
Local_renameOk(st, location, destination) ==
  LET s == rtrim(location)
      d == rtrim(destination)
  IN /\ FsExists(st, location)
     /\ FsIsDir(st, ParentOf(d))
     /\ IF st[s].kind = "file"
        THEN ~EndsWithSlash(destination) /\ ~FsIsDir(st, d)
        ELSE /\ ~FsIsFile(st, d)
             /\ ~Under(d, s)
             /\ (s = d \/ \A k \in DOMAIN st : ~Under(k, d))

Local_rename(st, opts, path, newpath) ==
  LET location == AbstractApplyPathPrefix(path)
      destination == AbstractApplyPathPrefix(newpath)
      s == rtrim(location)
      d == rtrim(destination)
      moved(k) == d \o SubSeq(k, Len(s) + 1, Len(k))
      gone == {k \in DOMAIN st : k = s \/ Under(k, s)}
  IN IF ~Local_renameOk(st, location, destination)
     THEN Outcome(st, opts, RetBool(FALSE), <<"rename">>)
     ELSE IF s = d THEN Outcome(st, opts, RetBool(TRUE), <<"rename">>)
     ELSE Outcome(
            [k \in (DOMAIN st \ gone) \cup {moved(g) : g \in gone} |->
               IF \E g \in gone : moved(g) = k
               THEN st[CHOOSE g \in gone : moved(g) = k]
               ELSE st[k]],
            opts, RetBool(TRUE), <<"rename">>)

\* copyFile: the source must be a file; the destination's parent must be a
\* directory and the destination no directory; the copy has the source's
\* bytes and mode.  `reject` is the medium refusing the copy.
Local_copyOk(st, location, destination) ==
  /\ FsIsFile(st, location) /\ ~EndsWithSlash(location)
  /\ ~EndsWithSlash(destination)
  /\ FsIsDir(st, ParentOf(rtrim(destination)))
  /\ ~FsIsDir(st, destination)

Local_copy(st, opts, path, newpath, reject) ==
  LET location == AbstractApplyPathPrefix(path)
      destination == AbstractApplyPathPrefix(newpath)
  IN IF Local_copyOk(st, location, destination) /\ ~reject
     THEN Outcome([k \in DOMAIN st \cup {destination} |->
                     IF k = destination THEN st[location] ELSE st[k]],
                  opts, RetBool(TRUE), <<"copyFile">>)
     ELSE Outcome(st, opts, RetBool(FALSE), <<"copyFile">>)

Local_deleteDir(st, opts, path) ==
  LET location == AbstractApplyPathPrefix(path)
  IN IF ~Local_isDir(st, location)
     THEN Outcome(st, opts, RetBool(FALSE), <<"stat">>)
     ELSE Outcome(RmRecursive(st, location), opts, RetBool(TRUE), <<"stat", "rm">>)

\* permissionMap['dir'][visibility]
Local_dirMode(visibility) == IF visibility = "private" THEN "0700" ELSE "0755"

Local_createDir(st, opts, dirname, config) ==
  LET location == AbstractApplyPathPrefix(dirname)
      visibility == IF config # "none" THEN config ELSE "public"
  IN IF MkdirOk(st, location)
     THEN Outcome(Mkdir(st, location, Local_dirMode(visibility)), opts,
                  RetEntry("dir", dirname, "", FALSE, 0, FALSE), <<"mkdir">>)
     ELSE Outcome(st, opts, RetBool(FALSE), <<"mkdir">>)

\* permissionMap[type][visibility]
Local_mode(type, visibility) ==
  IF type = "dir" THEN Local_dirMode(visibility)
  ELSE IF visibility = "private" THEN "0600" ELSE "0644"

Local_setVisibility(st, opts, path, visibility) ==
  LET location == AbstractApplyPathPrefix(path)
      n == rtrim(location)
      type == IF Local_isDir(st, location) THEN "dir" ELSE "file"
  IN IF FsExists(st, location)
     THEN Outcome([st EXCEPT ![n].perm = Local_mode(type, visibility)], opts,
                  RetBool(TRUE), <<"stat", "chmod">>)
     ELSE Outcome(st, opts, RetBool(FALSE), <<"stat", "chmod">>)

\* getVisibility: permissions & 0o44 ? 'public' : 'private'
Local_getVisibility(st, path) ==
  LET n == rtrim(AbstractApplyPathPrefix(path))
  IN IF st[n].perm \in {"0644", "0755"} THEN "public" ELSE "private"

\* ------------------------------------------------------------ listings
\* The longest page the medium answers a listing request of listContents
\* with: it returns up to MaxKeys keys per page and may return fewer.
MaxPage == 2

\* UtilHelper.pathinfo(path).dirname: the path above the last segment, ''
\* for a path of one segment.
pathinfo_dirname(path) == ParentOf(rtrim(path))

\* An Entry of a listing.
ListEntry(type, path, hasSize) ==
  [type |-> type, path |-> path, dirname |-> pathinfo_dirname(path),
   hasSize |-> hasSize, hasContents |-> FALSE]

\* The list of Entries listContents resolves to.
RetList(entries) ==
  [kind |-> "list", val |-> TRUE, type |-> "", path |-> <<>>, visibility |-> "",
   contents |-> "", hasContents |-> FALSE, size |-> 0, hasSize |-> FALSE,
   entries |-> entries]

\* The paths above p, nearest first, down to a path of one segment.
RECURSIVE AncestorsOf(_)
AncestorsOf(p) ==
  IF ParentOf(p) = <<>> THEN {} ELSE {ParentOf(p)} \cup AncestorsOf(ParentOf(p))

\* The entries of a listing ordered by path; entries of one path keep their
\* order.
OrderByPath(listing) ==
  LET paths == SortKeys({listing[i].path : i \in DOMAIN listing})
      at(p) == SelectSeq(listing, LAMBDA e : e.path = p)
      RECURSIVE cat(_)
      cat(i) == IF i > Len(paths) THEN <<>> ELSE at(paths[i]) \o cat(i + 1)
  IN cat(1)

\* UtilHelper.emulateDirectories: one dir Entry for every level between the
\* query root and a listed entry that no listed dir Entry stands for, merged
\* with the listed entries and ordered.  The adapters pass the listing alone;
\* the query root is what the levels are counted from.
emulateDirectories(listing, root) ==
  LET listed == {listing[i].path : i \in {j \in DOMAIN listing :
                                            listing[j].type = "dir"}}
      levels == UNION {{a \in AncestorsOf(listing[i].path) :
                          root = <<>> \/ Under(a, root)} : i \in DOMAIN listing}
      missing == SortKeys(levels \ listed)
      synthesized == [i \in DOMAIN missing |-> ListEntry("dir", missing[i], FALSE)]
  IN OrderByPath(listing \o synthesized)

\* The text of key k after the prefix.
AfterPrefix(k, prefix) == SubSeq(k, Len(prefix) + 1, Len(k))

\* The text of s up to and including its first separator.
RECURSIVE UpToSlash(_)
UpToSlash(s) ==
  IF s = <<>> THEN <<>>
  ELSE IF Head(s) = SLASH THEN <<SLASH>>
  ELSE <<Head(s)>> \o UpToSlash(Tail(s))

\* ListObjectsV2 with Prefix and, for a shallow listing, Delimiter '/': the
\* keys below the prefix in key order, a key with a separator after the
\* prefix rolled up into its common prefix; `page` items per page, the
\* cursor of the next page when more follow.
ListPage(st, prefix, delimited, token, page) ==
  LET keys == {k \in DOMAIN st : StartsWith(k, prefix)}
      rolled(k) == delimited /\ SLASH \in Range(AfterPrefix(k, prefix))
      item(k) == IF rolled(k) THEN prefix \o UpToSlash(AfterPrefix(k, prefix))
                 ELSE k
      common == {item(k) : k \in {x \in keys : rolled(x)}}
      all == SortKeys({i \in {item(k) : k \in keys} :
                         token = NoToken \/ LexLess(token, i)})
      n == Min(page, Len(all))
      got == SubSeq(all, 1, n)
  IN [Contents |-> SelectSeq(got, LAMBDA i : i \notin common),
      CommonPrefixes |-> SelectSeq(got, LAMBDA i : i \in common),
      NextContinuationToken |-> IF Len(all) > n /\ n > 0 THEN got[n] ELSE NoToken,
      ContinuationToken |-> token]

\* normalizeResponse(element, '') of a listed key or common prefix: the path
\* is the key without the adapter's prefix; a trailing separator makes it a
\* dir Entry without size, anything else a file Entry with the mapped Size.
S3_normalizeListed(key) ==
  LET path == removePathPrefix(key)
  IN IF EndsWithSlash(path) THEN ListEntry("dir", rtrim(path), FALSE)
     ELSE ListEntry("file", path, TRUE)

\* A listing that keeps every entry; C12 must tell it from S3_listFilter.
S3_listFilter_Off(item, directory) == TRUE

\* The filter of listContents: the directory does not list itself.
S3_listFilter(item, directory) == rtrim(item.path) # rtrim(directory)

\* S3Adapter.listContents: one ListObjectsV2 request, its Contents and
\* CommonPrefixes normalized, directories emulated, the directory filtered.
S3_listContents(st, opts, directory, recursive, page) ==
  LET prefix == applyPathPrefix(rtrim(directory) \o <<SLASH>>)
      data == ListPage(st, prefix, ~recursive, NoToken, page)
      listed == data.Contents \o data.CommonPrefixes
      response == [i \in DOMAIN listed |-> S3_normalizeListed(listed[i])]
      responseEmulated ==
        SelectSeq(emulateDirectories(response, rtrim(directory)),
                  LAMBDA item : S3_listFilter(item, directory))
  IN Outcome(st, opts, RetList(responseEmulated), <<"ListObjectsV2">>)

\* BunAdapter.normalizeResponse of a listed key: size is response.size or 0.
Bun_normalizeListed(key) ==
  LET path == removePathPrefix(key)
  IN IF EndsWithSlash(path) THEN ListEntry("dir", rtrim(path), FALSE)
     ELSE ListEntry("file", path, TRUE)

Bun_listFilter(item, directory) == rtrim(item.path) # rtrim(directory)

\* The cursor listContents sends with its next request: result.continuationToken,
\* the echo of the cursor the request was sent with.
Bun_listNextToken(result) == result.ContinuationToken

\* The do/while of BunAdapter.listContents: the listed keys and prefixes of
\* the pages it requests, in order, and the requests sent.
RECURSIVE Bun_listLoop(_, _, _, _, _, _, _)
Bun_listLoop(st, prefix, delimited, continuationToken, page, response, reqs) ==
  LET result == ListPage(st, prefix, delimited, continuationToken, page)
      listed == result.Contents \o result.CommonPrefixes
      got == response \o [i \in DOMAIN listed |-> Bun_normalizeListed(listed[i])]
      next == Bun_listNextToken(result)
  IN IF next # NoToken
     THEN Bun_listLoop(st, prefix, delimited, next, page, got, reqs \o <<"list">>)
     ELSE [response |-> got, reqs |-> reqs \o <<"list">>]

Bun_listContents(st, opts, directory, recursive, page) ==
  LET prefix == applyPathPrefix(rtrim(directory) \o <<SLASH>>)
      r == Bun_listLoop(st, prefix, ~recursive, NoToken, page, <<>>, <<>>)
      responseEmulated ==
        SelectSeq(emulateDirectories(r.response, rtrim(directory)),
                  LAMBDA item : Bun_listFilter(item, directory))
  IN Outcome(st, opts, RetList(responseEmulated), r.reqs)

\* readdir(location): the names of the nodes directly in the directory.
Readdir(st, location) ==
  {AfterPrefix(k, rtrim(location) \o <<SLASH>>) :
     k \in {x \in DOMAIN st : ParentOf(x) = rtrim(location)}}

\* The files of a shallow listing: location + name, without a separator
\* between them unless the location ends with one.
Local_shallowFiles(st, location) == {location \o name : name \in Readdir(st, location)}

\* recursiveList: every node below the root path, as dir + '/' + entry (or
\* dir + entry when dir ends with the separator).
Local_recursiveList(st, rootPath) == {k \in DOMAIN st : Under(k, rtrim(rootPath))}

\* BunLocalAdapter.normalizeResponse({path: file}, ''): type and size from
\* stat, for a directory too; a dir path loses its trailing separator.
Local_normalizeListed(st, file) ==
  LET path == removePathPrefix(file)
  IN IF st[rtrim(AbstractApplyPathPrefix(path))].kind = "file"
     THEN ListEntry("file", path, TRUE)
     ELSE ListEntry("dir", rtrim(path), TRUE)

\* BunLocalAdapter.listContents: [] unless the location is a directory; the
\* stat of normalizeResponse throws for a file name that names no node.
Local_listContents(st, opts, directory, recursive) ==
  LET location == AbstractApplyPathPrefix(directory)
      files == SortKeys(IF recursive THEN Local_recursiveList(st, location)
                        ELSE Local_shallowFiles(st, location))
      reqs == <<"stat", "readdir">>
  IN IF ~Local_isDir(st, location)
     THEN Outcome(st, opts, RetList(<<>>), <<"stat">>)
     ELSE IF \E i \in DOMAIN files :
               ~FsExists(st, AbstractApplyPathPrefix(removePathPrefix(files[i])))
     THEN Outcome(st, opts, RetThrow, reqs)
     ELSE Outcome(st, opts,
                  RetList([i \in DOMAIN files |-> Local_normalizeListed(st, files[i])]),
                  reqs)

\* -------------------------------------------- the contract, per adapter
write(ad, st, opts, path, contents, config) ==
  CASE ad = "S3Adapter" -> S3_upload(st, opts, path, contents, config)
    [] ad = "BunAdapter" -> Bun_upload(st, opts, path, contents, config)
    [] OTHER -> Local_write(st, opts, path, contents, config)

read(ad, st, opts, path) ==
  CASE ad = "S3Adapter" -> S3_read(st, opts, path)
    [] ad = "BunAdapter" -> Bun_read(st, opts, path)
    [] OTHER -> Local_read(st, opts, path)

delete(ad, st, opts, path) ==
  CASE ad = "S3Adapter" -> S3_delete(st, opts, path)
    [] ad = "BunAdapter" -> Bun_delete(st, opts, path)
    [] OTHER -> Local_delete(st, opts, path)

has(ad, st, opts, path) ==
  CASE ad = "S3Adapter" -> S3_has(st, opts, path)
    [] ad = "BunAdapter" -> Bun_has(st, opts, path)
    [] OTHER -> Local_has(st, opts, path)

copy(ad, st, opts, path, newpath, reject) ==
  CASE ad = "S3Adapter" -> S3_copy(st, opts, path, newpath, reject)
    [] ad = "BunAdapter" -> Bun_copy(st, opts, path, newpath, reject)
    [] OTHER -> Local_copy(st, opts, path, newpath, reject)

\* BunLocalAdapter.rename is one rename request; it has no copy step, and
\* `reject` does not reach it.
rename(ad, st, opts, path, newpath, reject) ==
  CASE ad = "S3Adapter" -> S3_rename(st, opts, path, newpath, reject)
    [] ad = "BunAdapter" -> Bun_rename(st, opts, path, newpath, reject)
    [] OTHER -> Local_rename(st, opts, path, newpath)

createDir(ad, st, opts, dirname, config) ==
  CASE ad = "S3Adapter" -> S3_createDir(st, opts, dirname, config)
    [] ad = "BunAdapter" -> Bun_createDir(st, opts, dirname, config)
    [] OTHER -> Local_createDir(st, opts, dirname, config)

deleteDir(ad, st, opts, dirname) ==
  CASE ad = "S3Adapter" -> S3_deleteDir(st, opts, dirname)
    [] ad = "BunAdapter" -> Bun_deleteDir(st, opts, dirname)
    [] OTHER -> Local_deleteDir(st, opts, dirname)

setVisibility(ad, st, opts, path, visibility) ==
  CASE ad = "S3Adapter" -> S3_setVisibility(st, opts, path, visibility)
    [] ad = "BunAdapter" -> Bun_setVisibility(st, opts, path, visibility)
    [] OTHER -> Local_setVisibility(st, opts, path, visibility)

\* BunLocalAdapter.getVisibility does not catch stat's error.
getVisibility(ad, st, opts, path) ==
  CASE ad = "S3Adapter" ->
         Outcome(st, opts, RetVisibility(S3_getRawVisibility(st, path)),
                 <<"GetObjectAcl">>)
    [] ad = "BunAdapter" ->
         Outcome(st, opts, RetVisibility(Bun_getVisibility(st, path)), <<>>)
    [] OTHER ->
         IF FsExists(st, AbstractApplyPathPrefix(path))
         THEN Outcome(st, opts, RetVisibility(Local_getVisibility(st, path)),
                      <<"stat">>)
         ELSE Outcome(st, opts, RetThrow, <<"stat">>)

listContents(ad, st, opts, directory, recursive, page) ==
  CASE ad = "S3Adapter" -> S3_listContents(st, opts, directory, recursive, page)
    [] ad = "BunAdapter" -> Bun_listContents(st, opts, directory, recursive, page)
    [] OTHER -> Local_listContents(st, opts, directory, recursive)

\* ------------------------------------------------ what the medium holds
ObjectStores == {"S3Adapter", "BunAdapter"}

\* Where the medium keeps what is stored at a path.
KeyOf(ad, path) ==
  IF ad = "BunLocalAdapter" THEN rtrim(AbstractApplyPathPrefix(path))
  ELSE applyPathPrefix(path)

\* A file is stored at the path (a path with a trailing separator names no file).
FileAt(ad, st, path) ==
  /\ ~EndsWithSlash(path)
  /\ KeyOf(ad, path) \in DOMAIN st
  /\ st[KeyOf(ad, path)].kind = "file"

\* What is stored below the path taken as a directory.
KeysUnder(ad, st, path) ==
  {k \in DOMAIN st : StartsWith(k, KeyOf(ad, rtrim(path)) \o <<SLASH>>)}

\* A directory exists at the path: a real one, or on a bucket a placeholder
\* object or at least one key below it.
DirAt(ad, st, path) ==
  IF ad = "BunLocalAdapter"
  THEN KeyOf(ad, path) \in DOMAIN st /\ st[KeyOf(ad, path)].kind = "dir"
  ELSE KeysUnder(ad, st, path) # {}

\* ---------------------------------------------------------- the machine
NoPath == <<>>

\* The objects (nodes below the root) the medium holds.
Stored(st) == DOMAIN st \ {rtrim(pathPrefix)}

\* No rename is in flight.  pc is the request the rename sends next; raw is
\* the visibility S3Adapter.copy has awaited, data the bytes BunAdapter.copy
\* has read; fileWas and contentsWas note the source as the call found it.
NoRename ==
  [pc |-> "idle", path |-> NoPath, newpath |-> NoPath, raw |-> "", data |-> "",
   reqs |-> <<>>, fileWas |-> FALSE, contentsWas |-> ""]

Init ==
  /\ adapter \in Adapters
  /\ pathPrefix = setPathPrefix(Root)
  /\ options = "none"
  /\ store = IF adapter = "BunLocalAdapter"
             THEN [k \in {rtrim(setPathPrefix(Root))} |-> Node("dir", "", "0755")]
             ELSE [k \in {} |-> Object("", "private")]
  /\ last = [op |-> "new", path |-> NoPath, newpath |-> NoPath, config |-> "none",
             reject |-> FALSE, ret |-> RetBool(TRUE), reqs |-> <<>>,
             fileWas |-> FALSE, changed |-> FALSE]
  /\ renaming = NoRename

\* A call returns: the medium and the adapter take the handler's outcome.
\* last also notes whether a file was stored at path when the call was made
\* and whether the call changed the medium.
Return(op, path, newpath, config, reject, o) ==
  /\ Cardinality(Stored(o.store)) <= MaxObjects
  /\ store' = o.store
  /\ options' = o.options
  /\ last' = [op |-> op, path |-> path, newpath |-> newpath, config |-> config,
              reject |-> reject, ret |-> o.ret, reqs |-> o.reqs,
              fileWas |-> FileAt(adapter, store, path),
              changed |-> (o.store # store)]
  /\ UNCHANGED <<adapter, pathPrefix, renaming>>

\* write(path, contents, config), with config drawn from configs
WriteWith(configs) ==
  \E path \in Paths, contents \in Contents, config \in configs :
    Return("write", path, NoPath, config, FALSE,
           write(adapter, store, options, path, contents, config))

Write == WriteWith(Configs)

\* write(path, contents): no visibility asked for
WritePlain == WriteWith({"none"})

Read ==
  \E path \in Paths :
    Return("read", path, NoPath, "none", FALSE, read(adapter, store, options, path))

Delete ==
  \E path \in Paths :
    Return("delete", path, NoPath, "none", FALSE,
           delete(adapter, store, options, path))

Has ==
  \E path \in Paths :
    Return("has", path, NoPath, "none", FALSE, has(adapter, store, options, path))

\* The medium can refuse only a request that it could have served.
Rejects(ad, st, path, newpath) ==
  IF copy(ad, st, "none", path, newpath, FALSE).ret.val THEN BOOLEAN ELSE {FALSE}

Copy ==
  \E path \in Paths, newpath \in Paths :
  \E reject \in Rejects(adapter, store, path, newpath) :
    Return("copy", path, newpath, "none", reject,
           copy(adapter, store, options, path, newpath, reject))

Rename ==
  \E path \in Paths, newpath \in Paths :
  \E reject \in IF adapter = "BunLocalAdapter" THEN {FALSE}
                 ELSE Rejects(adapter, store, path, newpath) :
    Return("rename", path, newpath, "none", reject,
           rename(adapter, store, options, path, newpath, reject))

CreateDirWith(configs) ==
  \E dirname \in Paths, config \in configs :
    Return("createDir", dirname, NoPath, config, FALSE,
           createDir(adapter, store, options, dirname, config))

CreateDir == CreateDirWith(Configs)

CreateDirPlain == CreateDirWith({"none"})

DeleteDir ==
  \E dirname \in Paths :
    Return("deleteDir", dirname, NoPath, "none", FALSE,
           deleteDir(adapter, store, options, dirname))

SetVisibility ==
  \E path \in Paths, visibility \in Visibilities :
    Return("setVisibility", path, NoPath, visibility, FALSE,
           setVisibility(adapter, store, options, path, visibility))

GetVisibility ==
  \E path \in Paths :
    Return("getVisibility", path, NoPath, "none", FALSE,
           getVisibility(adapter, store, options, path))

\* The directories listContents is called with: the root ('') and every path.
ListDirs == {<<>>} \cup Paths

\* A path three levels deep, for listings with more than one level to emulate.
DeepPaths == {<<"a", "/", "b", "/", "a">>}

\* write(path, contents) of a deep path
WriteDeep ==
  \E path \in DeepPaths, contents \in Contents :
    Return("write", path, NoPath, "none", FALSE,
           write(adapter, store, options, path, contents, "none"))

\* listContents(directory, recursive); last.config notes the mode, and the
\* medium answers with pages of any length up to MaxPage.
ListContents ==
  \E directory \in ListDirs, recursive \in BOOLEAN, page \in 1..MaxPage :
    Return("listContents", directory, NoPath,
           IF recursive THEN "recursive" ELSE "shallow", FALSE,
           listContents(adapter, store, options, directory, recursive, page))

Next ==
  \/ Write \/ Read \/ Delete \/ Has \/ Copy \/ Rename
  \/ CreateDir \/ DeleteDir \/ SetVisibility \/ GetVisibility
  \/ WriteDeep \/ ListContents

\* Every call of the contract, in any order.
Spec == Init /\ [][Next]_vars

\* The same machine, one group of methods at a time.  Visibility decides no
\* branch of read, delete, has, rename, copy or deleteDir, so their
\* specifications fill the medium without it; SpecVisibility fills it with
\* every config and is the one for what depends on ACLs, modes and this.options.
NextFiles == WritePlain \/ CreateDirPlain \/ Delete \/ DeleteDir \/ Has \/ Read
SpecFiles == Init /\ [][NextFiles]_vars

NextRename == WritePlain \/ CreateDirPlain \/ Delete \/ DeleteDir \/ Rename
SpecRename == Init /\ [][NextRename]_vars

NextCopy == WritePlain \/ CreateDirPlain \/ Delete \/ DeleteDir \/ Copy
SpecCopy == Init /\ [][NextCopy]_vars

\* ------------------------------------------ rename, request by request
\* S3Adapter.copy after its first await: the CopyObject request, with the
\* ACL of the awaited visibility and this.options spread over it.
S3_copyObject(st, opts, raw, path, newpath, reject) ==
  LET key == applyPathPrefix(newpath)
      src == applyPathPrefix(path)
      acl == IF raw = "public" THEN "public-read" ELSE "private"
  IN IF CopyObjectOk(st, src, key) /\ ~reject
     THEN [ok |-> TRUE,
           store |-> PutObject(st, key,
                       Object(st[src].contents, IF opts # "none" THEN opts ELSE acl))]
     ELSE [ok |-> FALSE, store |-> st]

\* BunAdapter.copy, first await: file.arrayBuffer() of the source key.
Bun_copyRead(st, path) ==
  LET key == applyPathPrefix(path)
  IN IF HeadObject(st, key) THEN [ok |-> TRUE, data |-> st[key].contents]
     ELSE [ok |-> FALSE, data |-> ""]

\* BunAdapter.copy, second await: s3.write(newKey, data).
Bun_copyWrite(st, data, newpath, reject) ==
  IF reject THEN [ok |-> FALSE, store |-> st]
  ELSE [ok |-> TRUE,
        store |-> PutObject(st, applyPathPrefix(newpath), Object(data, "private"))]

\* A rename that goes on to the delete whatever the copy returned; C21 must
\* tell it from RenameNextStep.
RenameNextStep_Always(copied) == "delete"

\* if (!(await this.copy(path, newpath))) return false; return delete(path)
RenameNextStep(copied) == IF ~copied THEN "return" ELSE "delete"

\* The rename in flight returns.
RenameReturns(ret, reqs, changed) ==
  /\ last' = [op |-> "rename", path |-> renaming'.path,
              newpath |-> renaming'.newpath, config |-> "none", reject |-> FALSE,
              ret |-> ret, reqs |-> reqs, fileWas |-> renaming'.fileWas,
              changed |-> changed]

\* rename(path, newpath) is called and copy sends its first request:
\* GetObjectAcl (S3Adapter), or the read of the source (BunAdapter), whose
\* failure makes copy, and rename, return false.
RenameBegin ==
  /\ adapter \in ObjectStores
  /\ renaming.pc = "idle"
  /\ \E path \in Paths, newpath \in Paths :
       LET key == applyPathPrefix(path)
           r == Bun_copyRead(store, path)
           began == [pc |-> "copy", path |-> path, newpath |-> newpath,
                     raw |-> IF adapter = "S3Adapter"
                             THEN S3_getRawVisibility(store, path) ELSE "",
                     data |-> IF adapter = "BunAdapter" THEN r.data ELSE "",
                     reqs |-> IF adapter = "S3Adapter" THEN <<"GetObjectAcl">>
                              ELSE <<"arrayBuffer">>,
                     fileWas |-> FileAt(adapter, store, path),
                     contentsWas |-> IF HeadObject(store, key)
                                     THEN store[key].contents ELSE ""]
       IN IF adapter = "BunAdapter" /\ RenameNextStep(r.ok) = "return"
          THEN /\ renaming' = [began EXCEPT !.pc = "idle"]
               /\ RenameReturns(RetBool(FALSE), began.reqs, FALSE)
          ELSE /\ renaming' = began
               /\ UNCHANGED last
  /\ UNCHANGED <<adapter, pathPrefix, options, store>>

\* copy sends the request that writes the new key; the medium serves it or
\* refuses it.  A refused copy returns false and so does rename.
RenameCopy ==
  /\ renaming.pc = "copy"
  /\ \E reject \in BOOLEAN :
       LET c == IF adapter = "S3Adapter"
                THEN S3_copyObject(store, options, renaming.raw, renaming.path,
                                   renaming.newpath, reject)
                ELSE Bun_copyWrite(store, renaming.data, renaming.newpath, reject)
           reqs == renaming.reqs \o
                     <<IF adapter = "S3Adapter" THEN "CopyObject" ELSE "write">>
       IN /\ Cardinality(Stored(c.store)) <= MaxObjects
          /\ store' = c.store
          /\ IF RenameNextStep(c.ok) = "return"
             THEN /\ renaming' = [renaming EXCEPT !.pc = "idle", !.reqs = reqs]
                  /\ RenameReturns(RetBool(FALSE), reqs, FALSE)
             ELSE /\ renaming' = [renaming EXCEPT !.pc = "delete", !.reqs = reqs]
                  /\ UNCHANGED last
  /\ UNCHANGED <<adapter, pathPrefix, options>>

\* rename calls delete(path) and returns what it returns.
RenameDelete ==
  /\ renaming.pc = "delete"
  /\ LET d == delete(adapter, store, options, renaming.path)
     IN /\ store' = d.store
        /\ renaming' = [renaming EXCEPT !.pc = "idle"]
        /\ RenameReturns(d.ret, renaming.reqs \o d.reqs, TRUE)
  /\ UNCHANGED <<adapter, pathPrefix, options>>

\* A call that runs between the awaits of the rename in flight and neither
\* deletes nor overwrites what is stored at its path and at its newpath.
SparesRename ==
  renaming.pc # "idle" =>
    \A p \in {renaming.path, renaming.newpath} :
      LET k == KeyOf(adapter, p)
      IN /\ (k \in DOMAIN store') = (k \in DOMAIN store)
         /\ k \in DOMAIN store => store'[k] = store[k]

Interleaved(call) == call /\ SparesRename

NextInterleaved ==
  \/ Interleaved(WritePlain) \/ Interleaved(Delete) \/ Interleaved(Has)
  \/ RenameBegin \/ RenameCopy \/ RenameDelete
\* An object-store adapter is constructed.
InitObjectStore == Init /\ adapter \in ObjectStores

SpecInterleaved == InitObjectStore /\ [][NextInterleaved]_vars

\* The namespacer by itself, for every root an adapter may be constructed
\* with: none, 'r', 'r/' and '/r' (a directory tree always has a root).
Roots == {<<>>, <<"r">>, <<"r", SLASH>>, <<SLASH, "r">>}

InitPrefix ==
  /\ adapter \in Adapters
  /\ pathPrefix \in {setPathPrefix(root) :
       root \in IF adapter = "BunLocalAdapter" THEN Roots \ {<<>>} ELSE Roots}
  /\ options = "none"
  /\ store = IF adapter = "BunLocalAdapter"
             THEN [k \in {rtrim(pathPrefix)} |-> Node("dir", "", "0755")]
             ELSE [k \in {} |-> Object("", "private")]
  /\ last = [op |-> "new", path |-> NoPath, newpath |-> NoPath, config |-> "none",
             reject |-> FALSE, ret |-> RetBool(TRUE), reqs |-> <<>>,
             fileWas |-> FALSE, changed |-> FALSE]
  /\ renaming = NoRename

\* The key or location the adapter's applyPathPrefix gives a path.
applyPathPrefixOf(ad, path) ==
  IF ad = "BunLocalAdapter" THEN AbstractApplyPathPrefix(path)
  ELSE applyPathPrefix(path)

\* A path as a result.
RetPath(path) ==
  [kind |-> "path", val |-> TRUE, type |-> "", path |-> path, visibility |-> "",
   contents |-> "", hasContents |-> FALSE, size |-> 0, hasSize |-> FALSE]

\* removePathPrefix(applyPathPrefix(path)), as normalizeResponse takes the
\* path of a stored key.
RemoveAppliedPrefix ==
  \E path \in {<<>>} \cup Paths \cup DeepPaths :
    Return("removePathPrefix", path, NoPath, "none", FALSE,
           Outcome(store, options,
                   RetPath(removePathPrefix(applyPathPrefixOf(adapter, path))),
                   <<>>))

NextPrefix == WritePlain \/ Delete \/ RemoveAppliedPrefix
SpecPrefix == InitPrefix /\ [][NextPrefix]_vars

NextList ==
  WritePlain \/ WriteDeep \/ CreateDirPlain \/ Delete \/ DeleteDir \/ ListContents
SpecList == Init /\ [][NextList]_vars

NextVisibility ==
  \/ Write \/ CreateDir \/ Delete \/ DeleteDir \/ SetVisibility
  \/ Copy \/ GetVisibility
SpecVisibility == Init /\ [][NextVisibility]_vars

\* ------------------------------------------------- vocabulary of the claims
\* The answers of has(path) and read(path) in a given state of the medium.
HasNow(st, path) == has(adapter, st, options, path).ret.val
ReadNow(st, path) == read(adapter, st, options, path).ret

\* The call that has just returned is op, on an adapter of the set.
Returned(op, ads) == last.op = op /\ adapter \in ads
Returns(op, ads) == last'.op = op /\ adapter \in ads /\ vars' # vars

\* C1: on the object-store adapters, when the copy step of rename(path,
\* newpath) fails, rename returns false, sends no delete request, and leaves
\* the bucket as it was, so has(path) stays true if it was true.
C1_RenameCopyFails ==
  [][(/\ Returns("rename", ObjectStores)
      /\ ~copy(adapter, store, options, last'.path, last'.newpath,
               last'.reject).ret.val)
     => (/\ last'.ret = RetBool(FALSE)
         /\ Range(last'.reqs) \cap {"DeleteObject", "delete"} = {}
         /\ store' = store
         /\ (HasNow(store, last'.path) => HasNow(store', last'.path)))]_vars

\* A rename whose copy request the medium refused: false, the source still there.
C1_Witness ==
  /\ Returned("rename", ObjectStores)
  /\ last.reject
  /\ ~last.changed
  /\ last.ret = RetBool(FALSE)
  /\ HasNow(store, last.path)

\* C2 as stated: for every existing file path and every other newpath,
\* rename returns true, then has(path) is false and has(newpath) is true.
C2_AsStated ==
  [][(/\ Returns("rename", Adapters)
      /\ ~last'.reject
      /\ FileAt(adapter, store, last'.path)
      /\ last'.newpath # last'.path)
     => (/\ last'.ret = RetBool(TRUE)
         /\ ~HasNow(store', last'.path)
         /\ HasNow(store', last'.newpath))]_vars

\* On a bucket the source's name stays a directory while keys lie below it,
\* and the new key must not be one of them; in a directory tree the new name
\* must be creatable: no trailing separator, its parent a directory, itself
\* no directory.
C2_Renamable(ad, st, path, newpath) ==
  IF ad \in ObjectStores
  THEN /\ KeysUnder(ad, st, path) = {}
       /\ ~StartsWith(KeyOf(ad, newpath), KeyOf(ad, path) \o <<SLASH>>)
  ELSE /\ ~EndsWithSlash(newpath)
       /\ DirAt(ad, st, ParentOf(newpath))
       /\ ~DirAt(ad, st, newpath)

\* C2, amended: the same, for the renames C2_Renamable admits.
C2_Rename ==
  [][(/\ Returns("rename", Adapters)
      /\ ~last'.reject
      /\ FileAt(adapter, store, last'.path)
      /\ last'.newpath # last'.path
      /\ C2_Renamable(adapter, store, last'.path, last'.newpath))
     => (/\ last'.ret = RetBool(TRUE)
         /\ ~HasNow(store', last'.path)
         /\ HasNow(store', last'.newpath))]_vars

\* A file renamed: gone from the old path, present at the new one.
C2_Witness ==
  /\ Returned("rename", Adapters)
  /\ last.fileWas
  /\ last.ret = RetBool(TRUE)
  /\ last.newpath # last.path
  /\ ~HasNow(store, last.path)
  /\ FileAt(adapter, store, last.newpath)

\* What stays: every key but the given ones is stored as before.
OthersKept(st, st2, keys) ==
  \A k \in DOMAIN st \ keys : k \in DOMAIN st2 /\ st2[k] = st[k]

\* C3: delete(path) with a path ending in '/' returns false and leaves the
\* medium exactly as it was, in every adapter.
C3_DeleteTrailingSlash ==
  [][(Returns("delete", Adapters) /\ EndsWithSlash(last'.path))
     => (last'.ret = RetBool(FALSE) /\ store' = store)]_vars

\* delete('a/') has returned false while something is stored at that very
\* key (a placeholder object) or a directory stands at that location.
C3_Witness ==
  /\ Returned("delete", Adapters)
  /\ EndsWithSlash(last.path)
  /\ ~last.changed
  /\ last.ret = RetBool(FALSE)
  /\ KeyOf(adapter, last.path) \in DOMAIN store

\* C4 as stated: delete of an existing file returns true and removes it, and
\* has(path) is false afterwards whatever else is stored.
C4_AsStated ==
  [][(Returns("delete", Adapters) /\ FileAt(adapter, store, last'.path))
     => (/\ last'.ret = RetBool(TRUE)
         /\ KeyOf(adapter, last'.path) \notin DOMAIN store'
         /\ ~HasNow(store', last'.path))]_vars

\* C4, amended: ... has(path) is false afterwards provided nothing is stored
\* below path + '/'; every other key is kept.
C4_DeleteFile ==
  [][(Returns("delete", Adapters) /\ FileAt(adapter, store, last'.path))
     => (/\ last'.ret = RetBool(TRUE)
         /\ KeyOf(adapter, last'.path) \notin DOMAIN store'
         /\ OthersKept(store, store', {KeyOf(adapter, last'.path)})
         /\ (KeysUnder(adapter, store, last'.path) = {}
               => ~HasNow(store', last'.path)))]_vars

\* A file deleted beside another stored key: gone, and has() says so.
C4_Witness ==
  /\ Returned("delete", Adapters)
  /\ last.fileWas
  /\ last.changed
  /\ last.ret = RetBool(TRUE)
  /\ Stored(store) # {}
  /\ ~HasNow(store, last.path)

C6_ReadMissing ==
  (/\ Returned("read", Adapters)
   /\ KeyOf(adapter, last.path) \notin DOMAIN store)
  => last.ret = RetBool(FALSE)

\* C7 as stated: for every existing file path and every newpath, copy returns
\* true, then has(newpath) is true, read(newpath) has the contents of
\* read(path), and the source is as it was; copy of a path where no file
\* exists returns false and leaves the medium alone.
C7_AsStated ==
  [][Returns("copy", Adapters) /\ ~last'.reject
     => IF FileAt(adapter, store, last'.path)
        THEN /\ last'.ret = RetBool(TRUE)
             /\ HasNow(store', last'.newpath)
             /\ ReadNow(store', last'.newpath).hasContents
             /\ ReadNow(store', last'.newpath).contents
                  = ReadNow(store, last'.path).contents
             /\ FileAt(adapter, store', last'.path)
             /\ store'[KeyOf(adapter, last'.path)]
                  = store[KeyOf(adapter, last'.path)]
        ELSE last'.ret = RetBool(FALSE) /\ store' = store]_vars

\* The copies that can succeed: newpath names a file (no trailing separator)
\* other than the source, and in a directory tree its parent is a directory
\* and no directory stands at newpath.
C7_Copyable(ad, st, path, newpath) ==
  /\ ~EndsWithSlash(newpath)
  /\ newpath # path
  /\ ad = "BunLocalAdapter"
       => DirAt(ad, st, ParentOf(newpath)) /\ ~DirAt(ad, st, newpath)

\* Nothing that copy could take is stored at the path: no file, and on a
\* bucket no object under the path's very key (a directory placeholder).
C7_NothingAt(ad, st, path) ==
  IF ad \in ObjectStores THEN applyPathPrefix(path) \notin DOMAIN st
  ELSE ~FileAt(ad, st, path)

\* C7, amended: for every stored file path and every newpath C7_Copyable
\* admits, a copy the medium accepts returns true, then has(newpath) is true,
\* read(newpath) has the contents of read(path), and the source is as it was;
\* copy of a path at which nothing is stored returns false and changes nothing.
C7_Copy ==
  [][Returns("copy", Adapters)
     => /\ (/\ ~last'.reject
            /\ FileAt(adapter, store, last'.path)
            /\ C7_Copyable(adapter, store, last'.path, last'.newpath))
          => (/\ last'.ret = RetBool(TRUE)
              /\ HasNow(store', last'.newpath)
              /\ ReadNow(store', last'.newpath).hasContents
              /\ ReadNow(store', last'.newpath).contents
                   = ReadNow(store, last'.path).contents
              /\ FileAt(adapter, store', last'.path)
              /\ store'[KeyOf(adapter, last'.path)]
                   = store[KeyOf(adapter, last'.path)])
        /\ C7_NothingAt(adapter, store, last'.path)
          => (last'.ret = RetBool(FALSE) /\ store' = store)]_vars

\* A stored file copied to a new key: both readable, with the same contents.
C7_Witness ==
  /\ Returned("copy", Adapters)
  /\ last.fileWas
  /\ last.changed
  /\ last.ret = RetBool(TRUE)
  /\ FileAt(adapter, store, last.path)
  /\ FileAt(adapter, store, last.newpath)
  /\ ReadNow(store, last.newpath).contents = ReadNow(store, last.path).contents

\* The answer of getVisibility(path) in a given state of medium and adapter.
VisibilityNow(st, opts, path) == getVisibility(adapter, st, opts, path).ret

\* C8: after a successful copy(path, newpath) the visibility of newpath is
\* the visibility path had immediately before the copy, whatever calls the
\* adapter instance served earlier.
C8_CopyKeepsVisibility ==
  [][(/\ Returns("copy", Adapters)
      /\ last'.ret = RetBool(TRUE)
      /\ VisibilityNow(store, options, last'.path).kind = "visibility")
     => VisibilityNow(store', options', last'.newpath)
          = VisibilityNow(store, options, last'.path)]_vars

\* createDir(d, config) called once more, right after it has returned.
CreateDirAgain == createDir(adapter, store, options, last.path, last.config)

\* C9 as stated: createDir(d) called twice in a row returns both times a dir
\* Entry for d (path d, read up to trailing separators), never false, and
\* the second call leaves the medium as the first left it.
C9_AsStated ==
  Returned("createDir", Adapters)
    => /\ last.ret.kind = "entry" /\ last.ret.type = "dir"
       /\ rtrim(last.ret.path) = rtrim(last.path)
       /\ CreateDirAgain.ret = last.ret
       /\ CreateDirAgain.store = store

\* In a directory tree a directory cannot be made where a file stands: at d
\* or at one of the directories above d.
C9_FileInTheWay(ad, st, dirname) ==
  /\ ad = "BunLocalAdapter"
  /\ \E n \in Lineage(rtrim(AbstractApplyPathPrefix(dirname))) : FsIsFile(st, n)

\* C9, amended: a createDir(d) that returned a dir Entry returns the same
\* Entry when called again, its path being d without trailing separators, and
\* the second call changes neither the medium nor the answer of has(d); the
\* first call returns false only in a directory tree with a file standing at
\* d or above it, and then so does the second.
C9_CreateDirTwice ==
  Returned("createDir", Adapters)
    => IF last.ret.kind = "entry"
       THEN /\ last.ret.type = "dir"
            /\ rtrim(last.ret.path) = rtrim(last.path)
            /\ CreateDirAgain.ret = last.ret
            /\ CreateDirAgain.store = store
            /\ CreateDirAgain.options = options
            /\ HasNow(CreateDirAgain.store, last.path)
       ELSE /\ last.ret = RetBool(FALSE)
            /\ C9_FileInTheWay(adapter, store, last.path)
            /\ CreateDirAgain.ret = RetBool(FALSE)
            /\ CreateDirAgain.store = store

\* createDir has made a directory that was not there, ancestors included,
\* and the medium holds it.
C9_Witness ==
  /\ Returned("createDir", Adapters)
  /\ last.changed
  /\ last.ret.kind = "entry"
  /\ last.ret.type = "dir"
  /\ DirAt(adapter, store, last.path)
  /\ CreateDirAgain.store = store

\* C10: deleteDir(d) of an existing directory returns true, and afterwards
\* nothing is stored under d + '/' and has(d) is false unless a file is
\* stored at d itself, however many listing pages the keys below d fill.
C10_DeleteDir ==
  [][(Returns("deleteDir", Adapters) /\ DirAt(adapter, store, last'.path))
     => (/\ last'.ret = RetBool(TRUE)
         /\ KeysUnder(adapter, store', last'.path) = {}
         /\ (~FileAt(adapter, store', last'.path)
               => ~HasNow(store', last'.path)))]_vars

\* C11: deleteDir(d) returns true and changes nothing in the medium when no
\* directory exists at d, in every adapter.
C11_DeleteMissingDir ==
  [][(Returns("deleteDir", Adapters) /\ ~DirAt(adapter, store, last'.path))
     => (last'.ret = RetBool(TRUE) /\ store' = store)]_vars

\* C19: delete(path), path without trailing separator, returns false (and
\* does not throw) when no file is stored at path, in every adapter.
C19_DeleteMissingFile ==
  [][(/\ Returns("delete", Adapters)
      /\ ~EndsWithSlash(last'.path)
      /\ KeyOf(adapter, last'.path) \notin DOMAIN store)
     => last'.ret = RetBool(FALSE)]_vars

\* C20: on one S3Adapter instance no call changes the adapter's stored
\* options, so a write or createDir without a visibility config stores its
\* object with ACL 'private' whatever the earlier calls asked for.
C20_OptionsStay ==
  [][adapter = "S3Adapter"
     => /\ options' = options
        /\ (/\ last'.op \in {"write", "createDir"}
            /\ last'.config = "none"
            /\ last'.ret.kind = "entry")
           => \A k \in DOMAIN store' :
                (k \notin DOMAIN store \/ store'[k] # store[k])
                  => store'[k].perm = "private"]_vars

\* The paths the medium stores something at (a placeholder key 'd/' stands
\* for the path d), and the paths below a directory ('' is the root).
StoredPaths(st) == {rtrim(removePathPrefix(k)) : k \in Stored(st)}
Below(p, d) == IF rtrim(d) = <<>> THEN p # <<>> ELSE Under(p, rtrim(d))

\* The listing that has just been returned, and the places in it of the
\* entries with a given path.
Listed == last.ret.entries
ListedAt(p) == {i \in DOMAIN Listed : Listed[i].path = p}
ReturnedList(mode, ads) ==
  Returned("listContents", ads) /\ last.config \in mode /\ last.ret.kind = "list"

\* C12: no entry returned by listContents(d, recursive) has the path d
\* without its trailing '/', for both modes, also when a placeholder object
\* with key d + '/' is stored.
C12_NeverListsItself ==
  ReturnedList({"recursive", "shallow"}, Adapters)
    => ListedAt(rtrim(last.path)) = {}

\* listContents(d) has returned entries while the placeholder key d + '/' is
\* stored in the bucket.
C12_Witness ==
  /\ ReturnedList({"recursive", "shallow"}, ObjectStores)
  /\ rtrim(last.path) # <<>>
  /\ applyPathPrefix(rtrim(last.path) \o <<SLASH>>) \in DOMAIN store
  /\ Len(Listed) > 0
  /\ ListedAt(rtrim(last.path)) = {}

\* C13: no two entries of a listing returned by listContents(d, recursive)
\* have the same path.
C13_NoTwoWithOnePath ==
  ReturnedList({"recursive", "shallow"}, Adapters)
    => \A p \in StoredPaths(store) : Cardinality(ListedAt(p)) <= 1

\* C14: listContents(d, true) holds, for every stored key below d and every
\* directory level strictly between d and that key, a dir entry with that
\* level's path whose dirname is the level's immediate parent.
C14_EveryLevelListed ==
  Returned("listContents", Adapters) /\ last.config = "recursive"
    => /\ last.ret.kind = "list"
       /\ \A p \in StoredPaths(store) : Below(p, last.path) =>
            \A a \in AncestorsOf(p) : Below(a, last.path) =>
              \E i \in ListedAt(a) : /\ Listed[i].type = "dir"
                                     /\ Listed[i].dirname = ParentOf(a)

\* The level directly below directory d on the way to path p.
FirstLevel(p, d) ==
  CHOOSE a \in AncestorsOf(p) \cup {p} : ParentOf(a) = rtrim(d)

\* C15: listContents(d, false) returns only direct children of d: every
\* entry's dirname is d without its trailing '/', a key stored more than one
\* level below d is no entry, and its first-level ancestor is one dir entry.
C15_ShallowListing ==
  Returned("listContents", Adapters) /\ last.config = "shallow"
    => /\ last.ret.kind = "list"
       /\ \A i \in DOMAIN Listed : Listed[i].dirname = rtrim(last.path)
       /\ \A p \in StoredPaths(store) :
            (Below(p, last.path) /\ ParentOf(p) # rtrim(last.path))
              => /\ ListedAt(p) = {}
                 /\ \E i \in ListedAt(FirstLevel(p, last.path)) :
                      Listed[i].type = "dir"
                 /\ Cardinality({i \in ListedAt(FirstLevel(p, last.path)) :
                                   Listed[i].type = "dir"}) = 1

\* C16: every Entry returned by listContents, createDir, write or read has
\* type 'file' or 'dir', and a dir Entry carries neither size nor contents.
C16_EntryTypes ==
  /\ last.ret.kind = "entry"
       => /\ last.ret.type \in {"file", "dir"}
          /\ last.ret.type = "dir" => ~last.ret.hasSize /\ ~last.ret.hasContents
  /\ last.ret.kind = "list"
       => \A i \in DOMAIN Listed :
            /\ Listed[i].type \in {"file", "dir"}
            /\ Listed[i].type = "dir"
                 => ~Listed[i].hasSize /\ ~Listed[i].hasContents

\* C17: when the keys below the prefix come in more than one page,
\* listContents(d, recursive) on an object store asks for every page and
\* returns entries for the keys of all of them.
C17_AllPagesListed ==
  Returned("listContents", ObjectStores) /\ last.config = "recursive"
    => /\ last.ret.kind = "list"
       /\ \A p \in StoredPaths(store) : Below(p, last.path) => ListedAt(p) # {}

\* C18: for every configured root and every relative path p,
\* removePathPrefix(applyPathPrefix(p)) is p, also on the object-store
\* adapters, whose applyPathPrefix strips leading '/' characters.
C18_PrefixRoundTrip ==
  Returned("removePathPrefix", Adapters) => last.ret.path = last.path

\* C22: rename(path, path) of an existing file does not lose it: after the
\* call has(path) is true and read(path) returns the original contents, in
\* every adapter.
C22_RenameOntoItself ==
  [][(/\ Returns("rename", Adapters)
      /\ last'.newpath = last'.path
      /\ FileAt(adapter, store, last'.path))
     => (/\ HasNow(store', last'.path)
         /\ ReadNow(store', last'.path) = ReadNow(store, last'.path))]_vars

\* The other way of writing a directory: with the trailing '/' or without it.
OtherSpelling(d) == IF EndsWithSlash(d) THEN rtrim(d) ELSE d \o <<SLASH>>

\* C23: for every existing directory d, listContents(d, recursive) does not
\* throw and returns the same entries for d written with and without a
\* trailing '/', for both values of recursive and in every adapter.
C23_EitherSpelling ==
  (/\ Returned("listContents", Adapters)
   /\ last.path # <<>>
   /\ DirAt(adapter, store, last.path))
    => /\ last.ret.kind = "list"
       /\ \E page \in 1..MaxPage :
            listContents(adapter, store, options, OtherSpelling(last.path),
                         last.config = "recursive", page).ret = last.ret

\* The contents are stored under the key of the path.
StoredAt(st, path, contents) ==
  /\ KeyOf(adapter, path) \in DOMAIN st
  /\ st[KeyOf(adapter, path)].contents = contents

\* A rename of an existing file to another path is in flight.
RenamingFile ==
  /\ renaming.pc # "idle"
  /\ renaming.fileWas
  /\ renaming.path # renaming.newpath

\* C21: while rename(path, newpath), path # newpath, runs on an object store
\* with calls interleaved at its awaits that neither delete nor overwrite
\* either path, the source's contents are stored at path or at newpath and
\* has(path) or has(newpath) is true; the source is deleted only once the
\* copy has stored them at newpath.
C21_SourceNeverLost ==
  /\ [](RenamingFile =>
          /\ \/ StoredAt(store, renaming.path, renaming.contentsWas)
             \/ StoredAt(store, renaming.newpath, renaming.contentsWas)
          /\ HasNow(store, renaming.path) \/ HasNow(store, renaming.newpath))
  /\ [][(/\ RenamingFile
         /\ StoredAt(store, renaming.path, renaming.contentsWas)
         /\ ~StoredAt(store', renaming.path, renaming.contentsWas))
        => /\ renaming.pc = "delete"
           /\ StoredAt(store, renaming.newpath, renaming.contentsWas)
           /\ StoredAt(store', renaming.newpath, renaming.contentsWas)]_vars

\* has is answered between the copy and the delete of a rename in flight,
\* the file stored under both keys.
C21_Witness ==
  /\ RenamingFile
  /\ renaming.pc = "delete"
  /\ last.op = "has"
  /\ last.path \in {renaming.path, renaming.newpath}
  /\ StoredAt(store, renaming.path, renaming.contentsWas)
  /\ StoredAt(store, renaming.newpath, renaming.contentsWas)

====
